---- MODULE Spec2Model ----
(***************************************************************************)
(* STUDY HUB (src/edu_study_hub.py): a Streamlit script that keeps a       *)
(* per-session store (st.session_state), builds prompts for six kinds of   *)
(* generation task and posts them to a local Ollama endpoint.              *)
(*                                                                         *)
(* One step of the model is one run of the script main(), triggered by one *)
(* widget event.  Python lists are objects on a heap, because the script   *)
(* both mutates the skills list in place (append, remove) and rebinds it   *)
(* (Clear All Skills), and hands the list object itself to                 *)
(* generate_syllabus.  Temperatures are written in tenths (7 is 0.7).      *)
(* Text that the script only displays keeps its ASCII part: emoji are      *)
(* left out and the bullet character of the syllabus template is "*".      *)
(***************************************************************************)
EXTENDS Integers, Sequences, FiniteSets, TLC

VARIABLES
  session_state,  \* st.session_state: key -> value, only the keys set so far
  heap,           \* the live Python list objects: object id -> contents
  ai_temp,        \* widget state of the "Creativity Level" slider, in tenths
  clock,          \* the system clock, in seconds; read when a syllabus is stored
  last,           \* what the latest run of the script received, sent and showed
  kept,           \* history variable: an earlier request, kept to compare later ones with
  ollama          \* environment: what GET /api/tags currently answers

vars == <<session_state, heap, ai_temp, clock, last, kept, ollama>>

-----------------------------------------------------------------------------
(* Bounds of the model *)

\* a successful generation is explored only while the history is shorter
MaxHistory == 2
\* seconds that pass between two readings of the clock
Elapse == 61

-----------------------------------------------------------------------------
(* Configuration, src lines 18-35 *)

OLLAMA_API_URL == "http://localhost:11434/api/generate"

MODEL_NAME == "granite3.1-dense:2b"

\* requests.post(..., timeout=120)
POST_TIMEOUT == 120

\* the keys of BACKGROUND_THEMES, in the order of the dict
BACKGROUND_THEMES ==
  << "Purple Gradient", "Ocean Blue", "Sunset Orange", "Forest Green",
     "Rose Pink", "Night Sky", "Cosmic Purple", "Mint Fresh", "Golden Hour",
     "Deep Space", "Cherry Blossom", "Aurora" >>

sample_skills ==
  << "Python Programming", "Data Structures", "Machine Learning",
     "Web Development", "Database Design", "Cloud Computing",
     "UI/UX Design", "Project Management", "DevOps",
     "Cybersecurity", "Mobile App Development", "Data Analytics" >>

\* the options of the multiselect of tab 3 when the skills list is empty
default_course_skills == << "Python", "JavaScript", "SQL" >>

-----------------------------------------------------------------------------
(* Python values *)

\* Python's None
None == [is_none |-> TRUE]

Range(s) == { s[i] : i \in 1..Len(s) }

\* x in list
contains(list, x) == \E i \in 1..Len(list) : list[i] = x

\* a list.insert(0, x) in the place of list.append(x)
list_insert_front(list, x) == << x >> \o list

\* list.append(x)
list_append(list, x) == Append(list, x)

\* the position list.remove(x) deletes: the first one holding x
first_index(list, x) == CHOOSE i \in 1..Len(list) : list[i] = x /\ \A j \in 1..(i-1) : list[j] # x

\* a list.pop() in the place of list.remove(x)
list_pop(list, x) == SubSeq(list, 1, Len(list) - 1)

\* list.remove(x), for x in list (the script calls it only with an element of the list)
list_remove(list, x) ==
  LET k == first_index(list, x)
  IN  [i \in 1..(Len(list) - 1) |-> IF i < k THEN list[i] ELSE list[i + 1]]

RECURSIVE join(_, _)
\* sep.join(xs)
join(sep, xs) ==
  IF xs = << >> THEN ""
  ELSE IF Len(xs) = 1 THEN xs[1]
  ELSE xs[1] \o sep \o join(sep, Tail(xs))

\* the smallest object id not in use
alloc(h) == CHOOSE i \in 1..(Cardinality(DOMAIN h) + 1) : i \notin DOMAIN h /\ \A j \in 1..(i-1) : j \in DOMAIN h

-----------------------------------------------------------------------------
(* The backend's answer to one POST *)

\* requests.exceptions classes caught by "except requests.exceptions.ConnectionError":
\* ConnectTimeout derives from both ConnectionError and Timeout
ConnectionErrorClasses == { "ConnectionError", "ConnectTimeout" }

\* classes caught by "except requests.exceptions.Timeout"
TimeoutClasses == { "ConnectTimeout", "ReadTimeout" }

\* response.raise_for_status() raises HTTPError for a 4xx or 5xx status
raises_for_status(status) == status >= 400 /\ status < 600

MSG_CONNECT == "Cannot connect to Ollama. Make sure Ollama is running on localhost:11434"

MSG_TIMEOUT == "Request timed out. Please try again."

MSG_ERROR == "Error calling Ollama: "

\* src lines 84-130: the f-string template, one element per line of the prompt.
syllabus_prompt(program_name, program_type, num_semesters, skills_text, detail_text, additional_text, prereq_text, resources_text) ==
  << "You are an expert curriculum designer. Create a detailed, comprehensive semester-wise syllabus.",
     "",
     "Program Name: " \o program_name,
     "Program Type: " \o program_type,
     "Number of Semesters: " \o ToString(num_semesters),
     "Skills to Cover: " \o skills_text,
     "Detail Level: " \o detail_text,
     "Additional Requirements: " \o additional_text,
     "",
     "Generate a detailed syllabus with the following structure:",
     "",
     "1. PROGRAM OVERVIEW",
     "- Program duration",
     "- Learning objectives",
     "- Target audience",
     prereq_text,
     "",
     "2. For EACH SEMESTER (Semester 1 to " \o ToString(num_semesters) \o "):",
     "   SEMESTER [NUMBER]: [NAME]",
     "   - Duration: [weeks]",
     "   - Focus Areas: [main topics]",
     "   ",
     "   COURSES:",
     "   Course 1: [Course Name]",
     "   - Credits: [number]",
     "   - Description: [brief description]",
     "   - Topics Covered:",
     "     * [Topic 1]",
     "     * [Topic 2]",
     "     * [Topic 3]",
     "   - Skills Developed: [skills from the input list]",
     "   - Assessment Methods: [how students are evaluated]",
     "   " \o resources_text,
     "   ",
     "   Course 2: [Course Name]",
     "   [Same structure as above]",
     "   ",
     "   [Continue for 3-4 courses per semester]",
     "",
     "3. SKILL PROGRESSION MAP",
     "- Show how skills build across semesters",
     "",
     "4. CAREER PATHWAYS",
     "- Potential career outcomes",
     "- Job roles and opportunities",
     "",
     "Please provide a comprehensive, well-structured response." >>

\* src lines 152-173: the f-string template, one element per line of the prompt.
course_prompt(course_name, skills) ==
  << "You are a curriculum specialist. Create detailed course content for:",
     "",
     "Course: " \o course_name,
     "Related Skills: " \o join(", ", skills),
     "",
     "Provide:",
     "1. COURSE DESCRIPTION (2-3 paragraphs)",
     "2. LEARNING OUTCOMES (5-7 specific outcomes)",
     "3. WEEKLY BREAKDOWN (12-15 weeks):",
     "   Week 1: [Topic] - [What students will learn]",
     "   Week 2: [Topic] - [What students will learn]",
     "   [Continue...]",
     "4. ASSESSMENT STRUCTURE:",
     "   - Assignment types",
     "   - Project details",
     "   - Exam format",
     "5. REQUIRED RESOURCES:",
     "   - Textbooks/materials",
     "   - Software/tools",
     "   - Online resources",
     "",
     "Be specific and detailed." >>

\* src lines 181-202: the f-string template, one element per line of the prompt.
skill_gap_prompt(current_skills, target_program) ==
  << "You are a career advisor and skill gap analyst.",
     "",
     "Current Skills: " \o join(", ", current_skills),
     "Target Program: " \o target_program,
     "",
     "Analyze:",
     "1. SKILL GAP ANALYSIS",
     "   - Skills the person already has",
     "   - Skills they need to acquire",
     "   - Priority level for each missing skill",
     "",
     "2. LEARNING PATHWAY",
     "   - Recommended learning sequence",
     "   - Estimated time to acquire each skill",
     "   - Resources and courses",
     "",
     "3. CAREER READINESS SCORE",
     "   - Rate current readiness (0-100%)",
     "   - Key areas to focus on",
     "   - Timeline to become job-ready",
     "",
     "Be specific and actionable." >>

\* src lines 211-233: the f-string template, one element per line of the prompt.
schedule_prompt(num_semesters, courses_per_semester, hours_per_week) ==
  << "You are a study planner expert. Create a detailed study schedule.",
     "",
     "Program Duration: " \o ToString(num_semesters) \o " semesters",
     "Courses per Semester: " \o ToString(courses_per_semester),
     "Available Hours per Week: " \o ToString(hours_per_week),
     "",
     "Create:",
     "1. WEEKLY TIME ALLOCATION",
     "   - Hours per course",
     "   - Study sessions breakdown",
     "   - Break times",
     "",
     "2. SEMESTER MILESTONES",
     "   - Week-by-week goals",
     "   - Assignment deadlines",
     "   - Exam preparation schedule",
     "",
     "3. PRODUCTIVITY TIPS",
     "   - Best practices for time management",
     "   - Study techniques",
     "   - Work-life balance strategies",
     "",
     "Be practical and specific." >>

\* src lines 241-262: the f-string template, one element per line of the prompt.
compare_prompt(program1, program2) ==
  << "You are an education consultant. Compare these two programs:",
     "",
     "Program 1: " \o program1,
     "Program 2: " \o program2,
     "",
     "Provide:",
     "1. CURRICULUM COMPARISON",
     "   - Core subjects",
     "   - Specialization areas",
     "   - Hands-on vs theory",
     "",
     "2. CAREER OUTCOMES",
     "   - Job roles for each",
     "   - Salary expectations",
     "   - Industry demand",
     "",
     "3. RECOMMENDATION",
     "   - Who should choose Program 1",
     "   - Who should choose Program 2",
     "   - Key decision factors",
     "",
     "Be objective and detailed." >>

\* src lines 270-291: the f-string template, one element per line of the prompt.
roadmap_prompt(skills, timeline_weeks) ==
  << "You are a learning path designer. Create a roadmap to master these skills:",
     "",
     "Skills: " \o join(", ", skills),
     "Timeline: " \o ToString(timeline_weeks) \o " weeks",
     "",
     "Create:",
     "1. PHASE-BY-PHASE BREAKDOWN",
     "   - What to learn each phase",
     "   - Projects to build",
     "   - Milestones to achieve",
     "",
     "2. RESOURCE RECOMMENDATIONS",
     "   - Online courses",
     "   - Books and tutorials",
     "   - Practice platforms",
     "",
     "3. PROGRESS TRACKING",
     "   - How to measure progress",
     "   - Portfolio projects",
     "   - Certification goals",
     "",
     "Be practical and motivating." >>
-----------------------------------------------------------------------------
(* Generation adapter, src lines 41-293 *)

\* The backend's answers: exc is the exception requests.post raises ("none":
\* it returns), status the HTTP status, body the kind of body received, and
\* has_response / response the "response" field of a JSON object body.
Answer(exc, status, body, has_response, response) ==
  [exc |-> exc, status |-> status, body |-> body,
   has_response |-> has_response, response |-> response]

\* a payload that takes its temperature from the "Creativity Level" slider
payload_from_slider(prompt, temperature) ==
  [model |-> MODEL_NAME, prompt |-> prompt, stream |-> FALSE, temperature |-> ai_temp]

\* the JSON body of the request
payload(prompt, temperature) ==
  [model |-> MODEL_NAME, prompt |-> prompt, stream |-> FALSE, temperature |-> temperature]

\* call_ollama(prompt, temperature) when the backend answers resp: the request
\* it posts, the st.error messages it shows and the string it returns
call_ollama(prompt, temperature, resp) ==
  LET post == [url |-> OLLAMA_API_URL, timeout |-> POST_TIMEOUT,
               json |-> payload(prompt, temperature)]
      failed(msg) == [post |-> post, answer |-> resp, errors |-> <<msg>>, returned |-> ""]
  IN  IF resp.exc \in ConnectionErrorClasses THEN failed(MSG_CONNECT)
      ELSE IF resp.exc \in TimeoutClasses THEN failed(MSG_TIMEOUT)
      ELSE IF resp.exc # "none" THEN failed(MSG_ERROR \o resp.exc)
      ELSE IF raises_for_status(resp.status) THEN failed(MSG_ERROR \o "HTTPError")
      ELSE IF resp.body = "malformed" THEN failed(MSG_ERROR \o "JSONDecodeError")
      ELSE IF resp.body # "object" THEN failed(MSG_ERROR \o "AttributeError")
      ELSE [post |-> post, answer |-> resp, errors |-> << >>,
            returned |-> IF resp.has_response THEN resp.response ELSE ""]

detail_instruction(detail_level) ==
  CASE detail_level = "Brief" -> "Keep it concise and high-level"
    [] detail_level = "Standard" -> "Provide balanced detail"
    [] detail_level = "Comprehensive" -> "Include extensive details, examples, and explanations"

\* the prompt of generate_syllabus for the skills (contents of the list)
syllabus_prompt_of(skills, num_semesters, program_name, program_type, additional_info, detail_level, include_prerequisites, include_resources) ==
  LET skills_text == join(", ", skills)
      prereq_text == IF include_prerequisites THEN "- Prerequisites and recommended background" ELSE ""
      resources_text == IF include_resources THEN "- Required Resources: textbooks, software, tools" ELSE ""
  IN  syllabus_prompt(program_name, program_type, num_semesters, skills_text,
                      detail_instruction(detail_level),
                      IF additional_info # "" THEN additional_info ELSE "None",
                      prereq_text, resources_text)

\* time.strftime("%Y-%m-%d %H:%M:%S"): the clock reading to the second
strftime_seconds(now) == now

\* datetime.now().strftime("%Y-%m-%d %H:%M"): the clock reading cut to the minute
strftime_minutes(now) == now - (now % 60)

\* the dict generate_syllabus returns: "skills" is the list object passed in
syllabus_dict(skills, f, response, now) ==
  [program_name |-> f.program_name,
   program_type |-> f.program_type,
   num_semesters |-> f.num_semesters,
   skills |-> skills,
   syllabus_content |-> response,
   generated_at |-> strftime_seconds(now),
   detail_level |-> f.detail_level]

\* a generate_syllabus that writes the time of the request into the prompt
syllabus_call_dated(skills, h, f, resp) ==
  call_ollama(syllabus_prompt_of(h[skills], f.num_semesters, f.program_name, f.program_type,
                                 f.additional_info \o " Today: " \o ToString(clock), f.detail_level,
                                 f.include_prerequisites, f.include_resources),
              7, resp)

\* the call generate_syllabus makes for the form f
syllabus_call(skills, h, f, resp) ==
  call_ollama(syllabus_prompt_of(h[skills], f.num_semesters, f.program_name, f.program_type,
                                 f.additional_info, f.detail_level,
                                 f.include_prerequisites, f.include_resources),
              7, resp)

\* generate_syllabus without "if not response: return None"
generate_syllabus_unchecked(skills, h, f, resp, now) ==
  LET call == syllabus_call(skills, h, f, resp)
  IN  [call |-> call, value |-> syllabus_dict(skills, f, call.returned, now)]

\* generate_syllabus: skills is the list object (its id), h the heap, f the form,
\* resp the backend's answer and now the clock.  Gives the call made and the
\* value returned: None or the result dict.
generate_syllabus(skills, h, f, resp, now) ==
  LET call == syllabus_call(skills, h, f, resp)
  IN  [call |-> call,
       value |-> IF call.returned = "" THEN None
                 ELSE syllabus_dict(skills, f, call.returned, now)]

enhance_course_details(course_name, skills, resp) ==
  call_ollama(course_prompt(course_name, skills), 6, resp)

analyze_skill_gap(current_skills, target_program, resp) ==
  call_ollama(skill_gap_prompt(current_skills, target_program), 6, resp)

generate_study_schedule(num_semesters, courses_per_semester, hours_per_week, resp) ==
  call_ollama(schedule_prompt(num_semesters, courses_per_semester, hours_per_week), 6, resp)

compare_programs(program1, program2, resp) ==
  call_ollama(compare_prompt(program1, program2), 6, resp)

generate_learning_roadmap(skills, timeline_weeks, resp) ==
  call_ollama(roadmap_prompt(skills, timeline_weeks), 6, resp)

-----------------------------------------------------------------------------
(* System status, src lines 853-868 *)

\* an answer of GET /api/tags: exc the exception requests.get raises ("none": it
\* returns), status the HTTP status, body the kind of body, names the "name"
\* of each entry of its "models" list
TagsAnswer(exc, status, body, names) ==
  [exc |-> exc, status |-> status, body |-> body, names |-> names]

\* what may stand before and after the model's name in a longer name
Affixes == { "", "library/", "-q4" }

\* MODEL_NAME in name, for names built from MODEL_NAME and the affixes
is_substring(name) == \E pre \in Affixes, post \in Affixes : name = pre \o MODEL_NAME \o post

\* the indicator lines the sidebar shows when the GET is answered by t; the
\* bare except catches whatever the block raises, also after "Connected" is shown
status_check(t) ==
  IF t.exc # "none" THEN << "Ollama Offline" >>
  ELSE IF t.status = 200
  THEN IF t.body # "object" THEN << "Ollama Connected", "Ollama Offline" >>
       ELSE IF \E i \in 1..Len(t.names) : t.names[i] = MODEL_NAME \/ is_substring(t.names[i])
       THEN << "Ollama Connected", MODEL_NAME \o " Ready" >>
       ELSE << "Ollama Connected", "Model not found" >>
  ELSE << "Connection Failed" >>

-----------------------------------------------------------------------------
(* Inputs explored *)

\* the backend up with the model installed
TagsReady == TagsAnswer("none", 200, "object", << "llama3:8b", "granite3.1-dense:2b" >>)

TagsAnswers ==
  { TagsReady,
    TagsAnswer("none", 200, "object", << "library/granite3.1-dense:2b-q4" >>),
    TagsAnswer("none", 200, "object", << "llama3:8b" >>),
    TagsAnswer("none", 200, "object", << >>),
    TagsAnswer("none", 200, "malformed", << >>),
    TagsAnswer("none", 503, "object", << >>),
    TagsAnswer("ConnectionError", 0, "none", << >>),
    TagsAnswer("ReadTimeout", 0, "none", << >>) }

\* what the user types into "Add a skill"
TypedSkills == { "", "Python Programming", "python programming" }

SyllabusForms ==
  { [program_name |-> "Data Science Bootcamp", program_type |-> "Bootcamp",
     num_semesters |-> 4, detail_level |-> "Standard", additional_info |-> "",
     include_prerequisites |-> TRUE, include_resources |-> TRUE],
    [program_name |-> "CS", program_type |-> "Degree Program",
     num_semesters |-> 8, detail_level |-> "Brief", additional_info |-> "Focus on projects",
     include_prerequisites |-> FALSE, include_resources |-> FALSE],
    [program_name |-> "", program_type |-> "Online Course",
     num_semesters |-> 1, detail_level |-> "Comprehensive", additional_info |-> "",
     include_prerequisites |-> TRUE, include_resources |-> FALSE] }

Answers ==
  { Answer("ConnectionError", 0, "none", FALSE, ""),
    Answer("ConnectTimeout", 0, "none", FALSE, ""),
    Answer("ReadTimeout", 0, "none", FALSE, ""),
    Answer("TooManyRedirects", 0, "none", FALSE, ""),
    Answer("none", 500, "object", TRUE, "Internal error"),
    Answer("none", 300, "object", TRUE, "SYLLABUS A"),
    Answer("none", 200, "malformed", FALSE, ""),
    Answer("none", 200, "array", FALSE, ""),
    Answer("none", 200, "object", FALSE, ""),
    Answer("none", 200, "object", TRUE, ""),
    Answer("none", 200, "object", TRUE, "SYLLABUS A"),
    Answer("none", 200, "object", TRUE, "SYLLABUS B") }

\* the quick-add buttons pressed: positions in sample_skills
QuickAddChoices == { 1 }

ThemeChoices == { BACKGROUND_THEMES[1], BACKGROUND_THEMES[2] }

CardStyles == { "Glassmorphism", "Solid" }

FontSizes == { "Small", "Medium", "Large" }

AnimationSpeeds == { "Slow", "Normal", "Fast" }

\* positions of the "Creativity Level" slider explored (0.0 to 1.0 in steps of 0.1)
SliderChoices == { 2, 7 }

CourseNames == { "", "Intro to ML" }

\* the tab 1 form with every setting of its optional fields
PromptForms ==
  { [program_name |-> "Data Science Bootcamp", program_type |-> "Bootcamp",
     num_semesters |-> 4, detail_level |-> d, additional_info |-> a,
     include_prerequisites |-> p, include_resources |-> r] :
    d \in { "Brief", "Standard", "Comprehensive" }, a \in { "", "Focus on projects" },
    p \in BOOLEAN, r \in BOOLEAN }

TargetPrograms == { "", "ML Engineer" }

ProgramNames == { "", "CS Degree" }

-----------------------------------------------------------------------------
(* Session state, src lines 710-728 *)

Keys ==
  { "generated_syllabus", "skills_list", "syllabus_history", "theme",
    "animation_speed", "card_style", "font_size", "show_animations", "auto_save" }

\* an initialisation that assigns the theme its default whether or not it is set
set_default_overwriting(ss, key, value) ==
  IF key \in DOMAIN ss /\ key # "theme" THEN ss
  ELSE [k \in DOMAIN ss \cup { key } |-> IF k = key THEN value ELSE ss[k]]

\* if key not in st.session_state: st.session_state[key] = value
set_default(ss, key, value) == IF key \in DOMAIN ss THEN ss ELSE ss @@ (key :> value)

\* the heap after the initialisation block: a new list object is made for
\* skills_list only when the key is not set (the empty history list is a value
\* of the store: the script never holds a second reference to it)
init_heap(ss, h) ==
  IF "skills_list" \in DOMAIN ss THEN h ELSE h @@ (alloc(h) :> << >>)

\* the store after the initialisation block of main()
init_session_state(ss, h) ==
  LET s1 == set_default(ss, "generated_syllabus", None)
      s2 == set_default(s1, "skills_list", alloc(h))
      s3 == set_default(s2, "syllabus_history", << >>)
      s4 == set_default(s3, "theme", "Purple Gradient")
      s5 == set_default(s4, "animation_speed", "Normal")
      s6 == set_default(s5, "card_style", "Glassmorphism")
      s7 == set_default(s6, "font_size", "Medium")
      s8 == set_default(s7, "show_animations", TRUE)
  IN  set_default(s8, "auto_save", TRUE)

\* the list objects the store still refers to
refs(ss) ==
  { ss.skills_list } \cup
  (IF ss.generated_syllabus = None THEN {} ELSE { ss.generated_syllabus.skills })

\* Object ids carry no meaning: after a run the live list objects are numbered
\* in the order the store refers to them, skills_list first.
new_id(ss, i) == IF i = ss.skills_list THEN 1 ELSE 2

renumber(ss) ==
  [ss EXCEPT !.skills_list = 1,
             !.generated_syllabus =
                IF @ = None THEN @ ELSE [@ EXCEPT !.skills = new_id(ss, @)]]

\* Python frees a list object once nothing refers to it
collect(ss, h) ==
  [n \in { new_id(ss, i) : i \in refs(ss) } |->
     h[CHOOSE i \in refs(ss) : new_id(ss, i) = n]]

\* the store and heap this run works on, after its initialisation block
ss0 == init_session_state(session_state, heap)

heap0 == init_heap(session_state, heap)

\* st.session_state.skills_list, as its contents
skills_now == heap0[ss0.skills_list]

\* a widget event reaches the script only after a run has rendered the page
Rendered == DOMAIN session_state = Keys

\* the download buttons on the page after a run that ends with store ss:
\* tab 2 offers the syllabus whenever one is stored, a tab 3-7 action offers its
\* own text when it got one
download_buttons(ss, own) ==
  (IF ss.generated_syllabus = None THEN {} ELSE { "Download Syllabus" }) \cup own

\* One run of main(): op names the event, skill and input what came with it,
\* calls the adapter calls made, shown the messages displayed.
Run(op, skill, input, calls, shown, own, ss, h) ==
  /\ session_state' = renumber(ss)
  /\ heap' = collect(ss, h)
  /\ last' = [op |-> op, skill |-> skill, input |-> input, calls |-> calls,
              shown |-> shown, downloads |-> download_buttons(ss, own),
              status |-> status_check(ollama)]
  /\ kept' = kept
  /\ ollama' = ollama

NoRun == [op |-> "none", skill |-> "", input |-> << >>, calls |-> << >>,
          shown |-> << >>, downloads |-> {}, status |-> << >>]

Init ==
  /\ session_state = << >>
  /\ heap = << >>
  /\ ai_temp = 7
  /\ clock = 1
  /\ last = NoRun
  /\ kept = << >>
  /\ ollama = TagsReady

\* a run with no widget event: the first run of a session, or a rerun
Load ==
  /\ Run("load", "", << >>, << >>, << >>, {}, ss0, heap0)
  /\ UNCHANGED <<ai_temp, clock>>

-----------------------------------------------------------------------------
(* Sidebar, src lines 761-909 *)

SelectTheme(new_theme) ==
  /\ Rendered
  /\ Run("theme", "", << >>, << >>, << >>, {},
         IF new_theme # ss0.theme THEN [ss0 EXCEPT !.theme = new_theme] ELSE ss0, heap0)
  /\ UNCHANGED <<ai_temp, clock>>

SelectCardStyle(new_card_style) ==
  /\ Rendered
  /\ Run("card_style", "", << >>, << >>, << >>, {},
         IF new_card_style # ss0.card_style THEN [ss0 EXCEPT !.card_style = new_card_style] ELSE ss0,
         heap0)
  /\ UNCHANGED <<ai_temp, clock>>

SelectFontSize(new_font_size) ==
  /\ Rendered
  /\ Run("font_size", "", << >>, << >>, << >>, {},
         IF new_font_size # ss0.font_size THEN [ss0 EXCEPT !.font_size = new_font_size] ELSE ss0,
         heap0)
  /\ UNCHANGED <<ai_temp, clock>>

SelectSpeed(new_speed) ==
  /\ Rendered
  /\ Run("animation_speed", "", << >>, << >>, << >>, {},
         IF new_speed # ss0.animation_speed THEN [ss0 EXCEPT !.animation_speed = new_speed] ELSE ss0,
         heap0)
  /\ UNCHANGED <<ai_temp, clock>>

ToggleAnimations(new_animations) ==
  /\ Rendered
  /\ Run("show_animations", "", << >>, << >>, << >>, {},
         IF new_animations # ss0.show_animations
         THEN [ss0 EXCEPT !.show_animations = new_animations] ELSE ss0,
         heap0)
  /\ UNCHANGED <<ai_temp, clock>>

\* st.session_state.auto_save = st.toggle(...)
ToggleAutoSave(value) ==
  /\ Rendered
  /\ Run("auto_save", "", << >>, << >>, << >>, {}, [ss0 EXCEPT !.auto_save = value], heap0)
  /\ UNCHANGED <<ai_temp, clock>>

\* ai_temp = st.slider("Creativity Level", 0.0, 1.0, 0.7, 0.1)
SlideTemperature(value) ==
  /\ Rendered
  /\ ai_temp' = value
  /\ UNCHANGED clock
  /\ Run("ai_temp", "", << >>, << >>, << >>, {}, ss0, heap0)

\* the append without its membership test
add_skill_always(ss, h, skill) == [h EXCEPT ![ss.skills_list] = list_append(@, skill)]

\* the list and heap after "if skill not in skills_list: skills_list.append(skill)"
add_skill(ss, h, skill) ==
  IF ~contains(h[ss.skills_list], skill)
  THEN [h EXCEPT ![ss.skills_list] = list_append(@, skill)]
  ELSE h

QuickAddSkill(i) ==
  /\ Rendered
  /\ Run("quick_add", sample_skills[i], << >>, << >>, << >>, {},
         ss0, add_skill(ss0, heap0, sample_skills[i]))
  /\ UNCHANGED <<ai_temp, clock>>

\* a clear that empties the list object in place (skills_list.clear())
ClearAllSkills_in_place ==
  /\ Rendered
  /\ Run("clear", "", << >>, << >>, << >>, {},
         ss0, [heap0 EXCEPT ![ss0.skills_list] = << >>])
  /\ UNCHANGED <<ai_temp, clock>>

\* st.session_state.skills_list = []
ClearAllSkills ==
  /\ Rendered
  /\ Run("clear", "", << >>, << >>, << >>, {},
         [ss0 EXCEPT !.skills_list = alloc(heap0)], heap0 @@ (alloc(heap0) :> << >>))
  /\ UNCHANGED <<ai_temp, clock>>

\* a reset that also switches auto-save back on
ResetAllSettings_with_auto_save ==
  /\ Rendered
  /\ Run("reset", "", << >>, << >>, << >>, {},
         [ss0 EXCEPT !.theme = "Purple Gradient",
                     !.animation_speed = "Normal",
                     !.card_style = "Glassmorphism",
                     !.font_size = "Medium",
                     !.show_animations = TRUE,
                     !.auto_save = TRUE],
         heap0)
  /\ UNCHANGED <<ai_temp, clock>>

ResetAllSettings ==
  /\ Rendered
  /\ Run("reset", "", << >>, << >>, << >>, {},
         [ss0 EXCEPT !.theme = "Purple Gradient",
                     !.animation_speed = "Normal",
                     !.card_style = "Glassmorphism",
                     !.font_size = "Medium",
                     !.show_animations = TRUE],
         heap0)
  /\ UNCHANGED <<ai_temp, clock>>

-----------------------------------------------------------------------------
(* Tab 1, src lines 923-1053 *)

\* "if new_skill and new_skill not in skills_list: skills_list.append(new_skill)"
AddSkill(new_skill) ==
  /\ Rendered
  /\ Run("add", new_skill, << >>, << >>, << >>, {},
         ss0, IF new_skill # "" THEN add_skill(ss0, heap0, new_skill) ELSE heap0)
  /\ UNCHANGED <<ai_temp, clock>>

\* the button "remove_{idx}" (idx from 0) of the skill at position idx + 1
RemoveSkill(idx) ==
  /\ Rendered
  /\ idx + 1 \in 1..Len(skills_now)
  /\ Run("remove", skills_now[idx + 1], << >>, << >>, << >>, {},
         ss0, [heap0 EXCEPT ![ss0.skills_list] = list_remove(@, skills_now[idx + 1])])
  /\ UNCHANGED <<ai_temp, clock>>

MSG_NO_NAME == "Please enter a program name"

MSG_NO_SKILL == "Please add at least one skill"

MSG_SUCCESS == "Syllabus generated successfully! Check the 'View Result' tab."

\* a history record labelled with a fixed word
history_entry_unnamed(program_name, now) == [name |-> "Syllabus", date |-> strftime_minutes(now)]

\* the record appended to syllabus_history
history_entry(program_name, now) == [name |-> program_name, date |-> strftime_minutes(now)]

\* a store that keeps one history record
store_overwriting(ss, result, program_name, now) ==
  [ss EXCEPT !.generated_syllabus = result,
             !.syllabus_history = << history_entry(program_name, now) >>]

\* a store that keeps one history record for each program name
store_deduplicating(ss, result, program_name, now) ==
  [ss EXCEPT !.generated_syllabus = result,
             !.syllabus_history =
                IF \E i \in 1..Len(@) : @[i].name = program_name THEN @
                ELSE Append(@, history_entry(program_name, now))]

\* a store that merges the new text into the syllabus already stored
store_merging(ss, result, program_name, now) ==
  [ss EXCEPT !.generated_syllabus =
                IF @ = None THEN result ELSE [@ EXCEPT !.syllabus_content = result.syllabus_content],
             !.syllabus_history = Append(@, history_entry(program_name, now))]

\* a store that keeps the result only while auto-save is switched on
store_when_auto_save(ss, result, program_name, now) ==
  IF ss.auto_save
  THEN [ss EXCEPT !.generated_syllabus = result,
                  !.syllabus_history = Append(@, history_entry(program_name, now))]
  ELSE ss

\* the two writes of a successful generation
store(ss, result, program_name, now) ==
  [ss EXCEPT !.generated_syllabus = result,
             !.syllabus_history = Append(@, history_entry(program_name, now))]

\* a Generate button that logs the history record before it looks at the result
generate_click_logging_first(ss, h, f, resp, now) ==
  IF f.program_name = ""
  THEN [calls |-> << >>, shown |-> << MSG_NO_NAME >>, ss |-> ss]
  ELSE IF Len(h[ss.skills_list]) = 0
  THEN [calls |-> << >>, shown |-> << MSG_NO_SKILL >>, ss |-> ss]
  ELSE LET g == generate_syllabus(ss.skills_list, h, f, resp, now)
           logged == [ss EXCEPT !.syllabus_history = Append(@, history_entry(f.program_name, now))]
       IN  IF g.value # None
           THEN [calls |-> << g.call >>, shown |-> g.call.errors \o << MSG_SUCCESS >>,
                 ss |-> [logged EXCEPT !.generated_syllabus = g.value]]
           ELSE [calls |-> << g.call >>, shown |-> g.call.errors, ss |-> logged]

\* a Generate button that posts the request a second time when the first call failed
click_result_retrying(ss, g, f, now) ==
  IF g.value # None
  THEN [calls |-> << g.call >>, shown |-> g.call.errors \o << MSG_SUCCESS >>,
        ss |-> store(ss, g.value, f.program_name, now)]
  ELSE [calls |-> << g.call, g.call >>, shown |-> g.call.errors \o g.call.errors, ss |-> ss]

\* "if result:" and what follows, for the value g that generate_syllabus gave
click_result(ss, g, f, now) ==
  IF g.value # None
  THEN [calls |-> << g.call >>, shown |-> g.call.errors \o << MSG_SUCCESS >>,
        ss |-> store(ss, g.value, f.program_name, now)]
  ELSE [calls |-> << g.call >>, shown |-> g.call.errors, ss |-> ss]

\* a Generate button that does not look at the skills list before it calls
generate_click_unvalidated(ss, h, f, resp, now) ==
  IF f.program_name = ""
  THEN [calls |-> << >>, shown |-> << MSG_NO_NAME >>, ss |-> ss]
  ELSE click_result(ss, generate_syllabus(ss.skills_list, h, f, resp, now), f, now)

\* a Generate button that is disabled unless the status check found the model
generate_click_gated(ss, h, f, resp, now) ==
  IF status_check(ollama) # << "Ollama Connected", MODEL_NAME \o " Ready" >>
  THEN [calls |-> << >>, shown |-> << "Ollama Offline" >>, ss |-> ss]
  ELSE IF f.program_name = ""
  THEN [calls |-> << >>, shown |-> << MSG_NO_NAME >>, ss |-> ss]
  ELSE IF Len(h[ss.skills_list]) = 0
  THEN [calls |-> << >>, shown |-> << MSG_NO_SKILL >>, ss |-> ss]
  ELSE click_result(ss, generate_syllabus(ss.skills_list, h, f, resp, now), f, now)

\* what the Generate button does with form f when the backend answers resp at time now
generate_click(ss, h, f, resp, now) ==
  IF f.program_name = ""
  THEN [calls |-> << >>, shown |-> << MSG_NO_NAME >>, ss |-> ss]
  ELSE IF Len(h[ss.skills_list]) = 0
  THEN [calls |-> << >>, shown |-> << MSG_NO_SKILL >>, ss |-> ss]
  ELSE click_result(ss, generate_syllabus(ss.skills_list, h, f, resp, now), f, now)

GenerateSyllabus(f, resp) ==
  /\ Rendered
  /\ \E c \in { generate_click(ss0, heap0, f, resp, clock) } :
      /\ Len(c.ss.syllabus_history) <= MaxHistory
      /\ Run("syllabus", "", << f >>, c.calls, c.shown, {}, c.ss, heap0)
      /\ clock' = IF c.ss = ss0 THEN clock ELSE clock + Elapse
      /\ ai_temp' = ai_temp

-----------------------------------------------------------------------------
(* Tabs 3 to 7, src lines 1102-1279 *)

\* a tab 3-7 button that logs the text it displays in the history
Display_logging(op, input, call, label) ==
  /\ Run(op, "", input, << call >>, call.errors,
         IF call.returned # "" THEN { label } ELSE {},
         IF call.returned # ""
         THEN [ss0 EXCEPT !.syllabus_history = Append(@, history_entry(label, clock))]
         ELSE ss0,
         heap0)
  /\ UNCHANGED <<ai_temp, clock>>

\* a tab 3-7 button: the store is not written; the text, when one came back, is
\* displayed with its download button
Display(op, input, call, label) ==
  /\ Run(op, "", input, << call >>, call.errors,
         IF call.returned # "" THEN { label } ELSE {}, ss0, heap0)
  /\ UNCHANGED <<ai_temp, clock>>

Warn(op, input, message) ==
  /\ Run(op, "", input, << >>, << message >>, {}, ss0, heap0)
  /\ UNCHANGED <<ai_temp, clock>>

\* the options of the "Related Skills" multiselect
course_options == IF Len(skills_now) > 0 THEN skills_now ELSE default_course_skills

CourseDeepDive(course_name_input, selected_skills, resp) ==
  /\ Rendered
  /\ IF course_name_input # "" /\ Len(selected_skills) > 0
     THEN Display("course", << course_name_input, selected_skills >>,
                  enhance_course_details(course_name_input, selected_skills, resp),
                  "Download Course Details")
     ELSE Warn("course", << course_name_input, selected_skills >>,
               "Please enter a course name and select at least one skill")

SkillGapAnalysis(target_program, resp) ==
  /\ Rendered
  /\ IF target_program # "" /\ Len(skills_now) > 0
     THEN Display("skill_gap", << target_program >>,
                  analyze_skill_gap(skills_now, target_program, resp),
                  "Download Analysis")
     ELSE Warn("skill_gap", << target_program >>,
               "Please add your current skills and enter a target program")

StudySchedule(schedule_semesters, courses_per_sem, hours_per_week, resp) ==
  /\ Rendered
  /\ Display("schedule", << schedule_semesters, courses_per_sem, hours_per_week >>,
             generate_study_schedule(schedule_semesters, courses_per_sem, hours_per_week, resp),
             "Download Schedule")

ProgramComparison(program1, program2, resp) ==
  /\ Rendered
  /\ IF program1 # "" /\ program2 # ""
     THEN Display("comparison", << program1, program2 >>,
                  compare_programs(program1, program2, resp), "Download Comparison")
     ELSE Warn("comparison", << program1, program2 >>, "Please enter both program names")

LearningRoadmap(timeline_weeks, resp) ==
  /\ Rendered
  /\ IF Len(skills_now) > 0
     THEN Display("roadmap", << timeline_weeks >>,
                  generate_learning_roadmap(skills_now, timeline_weeks, resp),
                  "Download Roadmap")
     ELSE Warn("roadmap", << timeline_weeks >>,
               "Please add skills first in the 'Generate Syllabus' tab")

-----------------------------------------------------------------------------

\* the runs that touch the skills list
SkillActions ==
  \/ \E i \in QuickAddChoices : QuickAddSkill(i)
  \/ ClearAllSkills
  \/ \E s \in TypedSkills : AddSkill(s)
  \/ \E idx \in 0..(Len(skills_now) - 1) : RemoveSkill(idx)

\* the session: skills, syllabus generation, and two of the settings
Next ==
  \/ Load
  \/ SkillActions
  \/ \E f \in SyllabusForms, resp \in Answers : GenerateSyllabus(f, resp)
  \/ \E t \in ThemeChoices : SelectTheme(t)

Spec == Init /\ [][Next]_vars

\* the skills list alone, over more skills
NextSkills ==
  \/ Load
  \/ \E i \in { 1, 2 } : QuickAddSkill(i)
  \/ ClearAllSkills
  \/ \E s \in TypedSkills \cup { "SQL" } : AddSkill(s)
  \/ \E idx \in 0..(Len(skills_now) - 1) : RemoveSkill(idx)

SpecSkills == Init /\ [][NextSkills]_vars

\* inputs of the smaller explorations
FewForms == { f \in SyllabusForms : f.program_name \in { "", "Data Science Bootcamp" } }

FewAnswers ==
  { Answer("ConnectionError", 0, "none", FALSE, ""),
    Answer("none", 200, "object", TRUE, "SYLLABUS A") }

\* the runs of tabs 3 to 7, the backend answering from the set answers
TabActions(answers) ==
  \/ \E c \in CourseNames, resp \in answers :
        \E sel \in { << >>, course_options } : CourseDeepDive(c, sel, resp)
  \/ \E t \in TargetPrograms, resp \in answers : SkillGapAnalysis(t, resp)
  \/ \E resp \in answers : StudySchedule(4, 4, 30, resp)
  \/ \E p1 \in ProgramNames, p2 \in ProgramNames, resp \in answers : ProgramComparison(p1, p2, resp)
  \/ \E resp \in answers : LearningRoadmap(12, resp)

\* the six generation actions against every answer of the backend, with the
\* slider and a theme
NextTabs ==
  \/ Load
  \/ AddSkill("Python Programming")
  \/ ClearAllSkills
  \/ \E f \in FewForms, resp \in Answers : GenerateSyllabus(f, resp)
  \/ \E v \in SliderChoices : SlideTemperature(v)
  \/ \E t \in ThemeChoices : SelectTheme(t)
  \/ TabActions(Answers)

SpecTabs == Init /\ [][NextTabs]_vars

\* every action of the script, each over few inputs
NextAll ==
  \/ Load
  \/ \E t \in ThemeChoices : SelectTheme(t)
  \/ \E c \in CardStyles : SelectCardStyle(c)
  \/ \E f \in { "Medium", "Large" } : SelectFontSize(f)
  \/ \E s \in { "Normal", "Fast" } : SelectSpeed(s)
  \/ \E b \in BOOLEAN : ToggleAnimations(b)
  \/ \E b \in BOOLEAN : ToggleAutoSave(b)
  \/ \E v \in SliderChoices : SlideTemperature(v)
  \/ ResetAllSettings
  \/ \E i \in QuickAddChoices : QuickAddSkill(i)
  \/ ClearAllSkills
  \/ \E s \in { "", "Python Programming" } : AddSkill(s)
  \/ \E idx \in 0..(Len(skills_now) - 1) : RemoveSkill(idx)
  \/ \E f \in FewForms, resp \in FewAnswers : GenerateSyllabus(f, resp)
  \/ TabActions(FewAnswers)

SpecAll == Init /\ [][NextAll]_vars

\* Not a step of the script: the request of the latest run is noted, with the
\* inputs it was built from and the session it was made in, so that the
\* request of a later run can be compared with it.
KeepRequest ==
  /\ last.calls # << >>
  /\ kept' = << [op |-> last.op, input |-> last.input,
                 skills |-> heap[session_state.skills_list],
                 json |-> last.calls[1].post.json,
                 theme |-> session_state.theme, ai_temp |-> ai_temp,
                 history |-> Len(session_state.syllabus_history)] >>
  /\ kept' # kept
  /\ UNCHANGED <<session_state, heap, ai_temp, clock, last, ollama>>

\* Environment: the backend goes down, comes up, loses or gains the model
TagsChange(t) ==
  /\ ollama' = t
  /\ ollama' # ollama
  /\ UNCHANGED <<session_state, heap, ai_temp, clock, last, kept>>

\* the generation actions under every answer of the status check
NextStatus ==
  \/ Load
  \/ AddSkill("Python Programming")
  \/ ClearAllSkills
  \/ \E f \in FewForms, resp \in FewAnswers : GenerateSyllabus(f, resp)
  \/ TabActions(FewAnswers)
  \/ \E t \in TagsAnswers : TagsChange(t)

SpecStatus == Init /\ [][NextStatus]_vars

\* the six generation actions with the settings that must not matter to the
\* request: theme, slider, stored syllabus and history
NextDet ==
  \/ Load
  \/ AddSkill("Python Programming")
  \/ ClearAllSkills
  \/ \E t \in ThemeChoices : SelectTheme(t)
  \/ \E v \in SliderChoices : SlideTemperature(v)
  \/ \E f \in FewForms, resp \in FewAnswers : GenerateSyllabus(f, resp)
  \/ TabActions(FewAnswers)
  \/ KeepRequest

SpecDet == Init /\ [][NextDet]_vars

\* the syllabus prompt: every setting of the optional fields, over the skills
\* lists made of "Python" and "SQL"
NextPrompt ==
  \/ Load
  \/ \E s \in { "Python", "SQL" } : AddSkill(s)
  \/ ClearAllSkills
  \/ \E f \in PromptForms, resp \in FewAnswers : GenerateSyllabus(f, resp)

SpecPrompt == Init /\ [][NextPrompt]_vars

-----------------------------------------------------------------------------
(* Vocabulary of the properties *)

\* the skills list of the store, as its contents
Skills == heap[session_state.skills_list]

History == session_state.syllabus_history

\* the skills the stored syllabus shows
StoredSkills == heap[session_state.generated_syllabus.skills]

HasSyllabus == Rendered /\ session_state.generated_syllabus # None

\* the stored syllabus without its reference to the skills list
SyllabusFields ==
  IF session_state.generated_syllabus = None THEN None
  ELSE [k \in DOMAIN session_state.generated_syllabus \ { "skills" } |->
          session_state.generated_syllabus[k]]

IsPrefix(s, t) == Len(s) <= Len(t) /\ \A i \in 1..Len(s) : s[i] = t[i]

NoDuplicates(list) == \A i, j \in 1..Len(list) : i # j => list[i] # list[j]

\* the backend's answers, by what the backend did
Is2xx(a) == a.exc = "none" /\ a.status >= 200 /\ a.status <= 299

GaveText(a) == Is2xx(a) /\ a.body = "object" /\ a.has_response /\ a.response # ""

GaveNoText(a) == Is2xx(a) /\ a.body = "object" /\ (~a.has_response \/ a.response = "")

\* connection failure, timeout, other transport failure, non-2xx status or malformed body
BackendFailed(a) == a.exc # "none" \/ ~Is2xx(a) \/ a.body # "object"

\* the backend answered with a status outside 200..299
NonSuccessStatus(a) == a.exc = "none" /\ ~Is2xx(a)

\* the adapter call c ended in an error: it showed a message
CallFailed(c) == c.errors # << >>

\* the adapter call c returned a text
CallGaveText(c) == c.returned # ""

\* what str(e) gives for the exceptions of the "except Exception" branch
ErrorDetails == { "TooManyRedirects", "HTTPError", "JSONDecodeError", "AttributeError" }

TabOps == { "course", "skill_gap", "schedule", "comparison", "roadmap" }

SkillOps == { "add", "quick_add", "remove", "clear" }

\* the six buttons that start a generation
GenerationOps == TabOps \cup { "syllabus" }

\* a run op with the inputs input over the skills list skills lacks a required input
MissingInput(op, input, skills) ==
  CASE op = "syllabus" -> input[1].program_name = "" \/ Len(skills) = 0
    [] op = "course" -> input[1] = "" \/ Len(input[2]) = 0
    [] op = "skill_gap" -> input[1] = "" \/ Len(skills) = 0
    [] op = "comparison" -> input[1] = "" \/ input[2] = ""
    [] op = "roadmap" -> Len(skills) = 0
    [] OTHER -> FALSE

\* the display preferences of the store
PrefKeys == { "theme", "animation_speed", "card_style", "font_size", "show_animations", "auto_save" }

Preferences == [k \in PrefKeys |-> session_state[k]]

\* the store of a fresh session; its skills list is a new empty list
FreshStore ==
  [generated_syllabus |-> None, skills_list |-> 1, syllabus_history |-> << >>,
   theme |-> "Purple Gradient", animation_speed |-> "Normal",
   card_style |-> "Glassmorphism", font_size |-> "Medium",
   show_animations |-> TRUE, auto_save |-> TRUE]

\* the messages of the adapter's three except branches
BackendMessages == { MSG_CONNECT, MSG_TIMEOUT } \cup { MSG_ERROR \o d : d \in ErrorDetails }

\* the latest run made one adapter call
Called == Len(last.calls) = 1

\* the latest run was a Generate Syllabus run that posted a prompt
PostedSyllabus == last.op = "syllabus" /\ Called

\* the lines of the prompt the latest run posted, and the form it was built from
Prompt == last.calls[1].post.json.prompt

Form == last.input[1]

\* the buttons whose request is built from the skills list
SkillReaders == { "syllabus", "skill_gap", "roadmap" }

\* the latest run posted a request with the task kind and the parameters of the kept one
SameParameters ==
  /\ kept # << >> /\ Called
  /\ last.op = kept[1].op /\ last.input = kept[1].input
  /\ last.op \in SkillReaders => Skills = kept[1].skills

\* the sequence p without its line k
RemoveLine(p, k) == [i \in 1..(Len(p) - 1) |-> IF i < k THEN p[i] ELSE p[i + 1]]

\* a line that carries no text
BlankLines == { "", "   " }

PREREQ_LINE == "- Prerequisites and recommended background"

RESOURCES_LINE == "   - Required Resources: textbooks, software, tools"

\* the number of lines of the template with every optional field present
FullPromptLen == Len(syllabus_prompt("", "", 1, "", "", "x", PREREQ_LINE, RESOURCES_LINE))

\* line i of p and the next one carry no text
TwoBlanksAfter(p, i) == i + 2 <= Len(p) /\ p[i + 1] \in BlankLines /\ p[i + 2] \in BlankLines

-----------------------------------------------------------------------------
(* Properties *)

\* C1: a Generate Syllabus run whose adapter call ends in an error (cannot
\* connect, timed out, or any other error it reports) leaves the whole store as it was: the
\* stored syllabus, the history, the skills list and the display preferences.
C1_FailedSyllabusChangesNothing ==
  [][ (last'.op = "syllabus" /\ Called' /\ CallFailed(last'.calls[1]))
        => (session_state' = session_state /\ heap' = heap) ]_vars

\* C1 witness: a failed Generate Syllabus run in a session that holds a
\* syllabus, a history, skills and a theme other than the default.
C1_Witness ==
  /\ last.op = "syllabus" /\ Called /\ CallFailed(last.calls[1])
  /\ HasSyllabus /\ Len(History) = 2 /\ Len(Skills) = 2
  /\ session_state.theme # "Purple Gradient"

\* C2: when the backend answers a Syllabus request with a 2xx JSON object whose
\* text field is absent or empty, the adapter returns the empty string without
\* an error, nothing is reported as generated, and the stored syllabus and the
\* history stay as they were.
C2_EmptyTextStoresNothing ==
  [][ (last'.op = "syllabus" /\ Called' /\ GaveNoText(last'.calls[1].answer))
        => /\ last'.calls[1].returned = ""
           /\ last'.shown = << >>
           /\ session_state'.generated_syllabus = session_state.generated_syllabus
           /\ session_state'.syllabus_history = session_state.syllabus_history
           /\ heap' = heap ]_vars

\* C2 witness: a Syllabus run answered by a JSON object without the text field,
\* in a session that already holds a syllabus.
C2_Witness ==
  /\ last.op = "syllabus" /\ Called
  /\ GaveNoText(last.calls[1].answer) /\ ~last.calls[1].answer.has_response
  /\ HasSyllabus /\ Len(History) = 1

\* C3: the skills list never holds two equal entries (exact, case-sensitive
\* match), whatever adds, quick adds, removals and clears came before.
C3_SkillsHaveNoDuplicates == Rendered => NoDuplicates(Skills)

\* C3 witness: a quick add of a skill that was already in the list, which also
\* holds the same words in lower case.
C3_Witness ==
  /\ last.op = "quick_add" /\ last.skill = "Python Programming"
  /\ Len(Skills) >= 2
  /\ Skills[1] = "Python Programming" /\ Skills[2] = "python programming"

\* C4: an add or quick add of s leaves the list unchanged when s is empty or
\* already present; otherwise the list grows by s at its end, the earlier
\* entries keeping their places.  Repeating the add of the same s changes
\* nothing.
C4_AddSkill ==
  [][ (last'.op \in { "add", "quick_add" })
        => LET s == last'.skill
               old == Skills
               new == Skills'
           IN  /\ session_state' = session_state
               /\ (s = "" \/ s \in Range(old)) => new = old
               /\ (s # "" /\ s \notin Range(old)) =>
                    /\ Len(new) = Len(old) + 1
                    /\ new[Len(new)] = s
                    /\ \A i \in 1..Len(old) : new[i] = old[i]
               /\ (last.op \in { "add", "quick_add" } /\ last.skill = s) => new = old ]_vars

\* C4 witness: "SQL" was added at the end of a list of two skills.
C4_Witness ==
  /\ last.op = "add" /\ last.skill = "SQL"
  /\ Skills = << "python programming", "Python Programming", "SQL" >>

\* C5: a remove run comes with a skill of the list and deletes its first exact
\* match: the list gets one shorter and the other skills keep their order.  (A
\* remove button exists only for a skill of the list, so no run removes an
\* absent skill.)
C5_RemoveSkill ==
  [][ (last'.op = "remove")
        => LET s == last'.skill
               old == Skills
               new == Skills'
           IN  /\ session_state' = session_state
               /\ s \in Range(old)
               /\ Len(new) = Len(old) - 1
               /\ \E k \in 1..Len(old) :
                    /\ old[k] = s
                    /\ \A j \in 1..(k - 1) : old[j] # s
                    /\ \A i \in 1..Len(new) : new[i] = IF i < k THEN old[i] ELSE old[i + 1] ]_vars

\* C5 witness: the middle one of three or more skills was removed and its
\* neighbours stay in order.
C5_Witness ==
  /\ last.op = "remove" /\ last.skill = "SQL"
  /\ Skills = << "python programming", "Python Programming", "Data Structures" >>

\* C6: the history is append-only: whatever the run, the history before it is
\* a prefix of the history after it.
C6_HistoryAppendOnly ==
  [][ Rendered => IsPrefix(History, History') ]_vars

\* C6 witness: a second record was appended to the history.
C6_Witness ==
  /\ last.op = "syllabus" /\ Called /\ GaveText(last.calls[1].answer)
  /\ Len(History) = 2

\* C7: every successful Syllabus generation appends exactly one record to the
\* history, named by the submitted program name, also when a record of that
\* name is already there.
C7_SuccessAppendsOneRecord ==
  [][ (last'.op = "syllabus" /\ Called' /\ GaveText(last'.calls[1].answer))
        => /\ Len(History') = Len(History) + 1
           /\ IsPrefix(History, History')
           /\ History'[Len(History')].name = last'.input[1].program_name ]_vars

\* C7 witness: two successful generations for the same program name left two
\* records.
C7_Witness ==
  /\ last.op = "syllabus" /\ Called /\ GaveText(last.calls[1].answer)
  /\ Len(History) = 2
  /\ History[1].name = History[2].name

\* C8: a run of tabs 3 to 7 leaves the store as it was, whether its adapter
\* call succeeded, failed or was not made; and a run that changes the history
\* or a field of the stored syllabus is a successful Generate Syllabus run.
C8_OnlySyllabusWrites ==
  [][ Rendered =>
        /\ (last'.op \in TabOps) => (session_state' = session_state /\ heap' = heap)
        /\ (History' # History \/ SyllabusFields' # SyllabusFields)
             => (last'.op = "syllabus" /\ Called' /\ CallGaveText(last'.calls[1])) ]_vars

\* C8 witness: a Course Deep Dive run got its text, in a session that holds a
\* syllabus and skills.
C8_Witness ==
  /\ last.op = "course" /\ Called /\ GaveText(last.calls[1].answer)
  /\ last.downloads = { "Download Syllabus", "Download Course Details" }
  /\ HasSyllabus /\ Len(Skills) = 1

\* C9 as claimed: once a syllabus is stored, adding, quick adding, removing or
\* clearing skills changes neither the skills the stored syllabus shows nor
\* any other field of it.
C9_StoredSyllabusKeepsItsSkills ==
  [][ (HasSyllabus /\ last'.op \in SkillOps)
        => (StoredSkills' = StoredSkills /\ SyllabusFields' = SyllabusFields) ]_vars

\* C10: every request posted carries the model "granite3.1-dense:2b",
\* stream = false, and the temperature 0.7 for a syllabus and 0.6 for the five
\* other kinds, wherever the slider and the theme stand.
C10_RequestParameters ==
  \A i \in 1..Len(last.calls) :
    LET json == last.calls[i].post.json
    IN  /\ json.model = "granite3.1-dense:2b"
        /\ json.stream = FALSE
        /\ json.temperature = IF last.op = "syllabus" THEN 7 ELSE 6

\* C10 witness: a request of tab 3 went out at 0.6 with the slider at 0.2 and
\* another theme chosen.
C10_Witness ==
  /\ last.op = "course" /\ Called
  /\ last.calls[1].post.json.temperature = 6
  /\ ai_temp = 2
  /\ session_state.theme # "Purple Gradient"

\* C11 as claimed: of two Generate Syllabus runs over the same skills whose
\* forms differ only in that the second has "include prerequisites" (or
\* "include resources") switched off, the second prompt is the first one
\* without its prerequisites (resources) instruction line: one line fewer,
\* the others identical and in the same order.
C11_SwitchOffRemovesLine ==
  [][ (PostedSyllabus /\ PostedSyllabus' /\ Skills' = Skills) =>
        /\ (Form.include_prerequisites
              /\ Form' = [Form EXCEPT !.include_prerequisites = FALSE])
             => /\ Len(Prompt') = Len(Prompt) - 1
                /\ \E k \in 1..Len(Prompt) :
                     Prompt[k] = PREREQ_LINE /\ Prompt' = RemoveLine(Prompt, k)
        /\ (Form.include_resources
              /\ Form' = [Form EXCEPT !.include_resources = FALSE])
             => /\ Len(Prompt') = Len(Prompt) - 1
                /\ \E k \in 1..Len(Prompt) :
                     Prompt[k] = RESOURCES_LINE /\ Prompt' = RemoveLine(Prompt, k) ]_vars

\* C12 as claimed: a Generate Syllabus run posts a prompt whichever optional
\* fields are absent (no additional info, prerequisites off, resources off),
\* and each absent field's line is dropped: the prompt is that many lines
\* shorter than the full template, holds no "Additional Requirements" line
\* with a placeholder or nothing after it, and no blank line stands where the
\* prerequisites or resources line would be.
C12_AbsentFieldDropsLine ==
  PostedSyllabus =>
    LET absent == (IF Form.additional_info = "" THEN 1 ELSE 0)
                  + (IF Form.include_prerequisites THEN 0 ELSE 1)
                  + (IF Form.include_resources THEN 0 ELSE 1)
    IN  /\ Len(Prompt) = FullPromptLen - absent
        /\ Form.additional_info = "" =>
              \A i \in 1..Len(Prompt) :
                Prompt[i] \notin { "Additional Requirements: None", "Additional Requirements: " }
        /\ ~Form.include_prerequisites =>
              \A i \in 1..Len(Prompt) :
                Prompt[i] = "- Target audience" => ~TwoBlanksAfter(Prompt, i)
        /\ ~Form.include_resources =>
              \A i \in 1..Len(Prompt) :
                Prompt[i] = "   - Assessment Methods: [how students are evaluated]"
                  => ~TwoBlanksAfter(Prompt, i)

\* C13 as claimed: every failure of the backend request shows exactly one
\* message, of the kind of the failure, and the adapter returns "": "Cannot
\* connect" for a connection failure, "timed out" for no response within the
\* timeout (a connect timeout is both), and an "Error calling Ollama" message
\* for any other transport failure, non-2xx status or malformed body.
C13_FailureKinds ==
  \A i \in 1..Len(last.calls) :
    LET c == last.calls[i]
        a == c.answer
    IN  BackendFailed(a) =>
          /\ c.returned = ""
          /\ Len(c.errors) = 1
          /\ a.exc = "ConnectionError" => c.errors[1] = MSG_CONNECT
          /\ a.exc = "ReadTimeout" => c.errors[1] = MSG_TIMEOUT
          /\ a.exc = "ConnectTimeout" => c.errors[1] \in { MSG_CONNECT, MSG_TIMEOUT }
          /\ a.exc \notin { "ConnectionError", "ReadTimeout", "ConnectTimeout" } =>
                /\ c.errors[1] \notin { MSG_CONNECT, MSG_TIMEOUT }
                /\ \E d \in ErrorDetails : c.errors[1] = MSG_ERROR \o d

\* C14: a run posts at most one request: a click on one of the six generation
\* buttons posts none or one, also when that one fails (nothing is posted
\* again), and a run of any other kind posts none.
C14_AtMostOneCall ==
  /\ Len(last.calls) <= 1
  /\ last.op \notin GenerationOps => last.calls = << >>
  /\ \A i \in 1..Len(last.calls) : Len(last.calls[i].errors) <= 1

\* C14 witness: a Generate Syllabus click whose request timed out made one call.
C14_Witness ==
  /\ last.op = "syllabus" /\ Called
  /\ last.calls[1].answer.exc = "ReadTimeout" /\ CallFailed(last.calls[1])

\* C15: a click on a generation button with a required input missing (no
\* program name or no skills for a syllabus; no course name or no selected
\* skill; no target program or no skills; one of the two program names
\* missing; no skills for a roadmap) makes no adapter call, shows one message
\* that is none of the backend error messages, and leaves the store as it was.
C15_MissingInputMakesNoCall ==
  [][ (last'.op \in GenerationOps /\ MissingInput(last'.op, last'.input, Skills))
        => /\ last'.calls = << >>
           /\ Len(last'.shown) = 1
           /\ last'.shown[1] \notin BackendMessages
           /\ session_state' = session_state
           /\ heap' = heap ]_vars

\* C15 witness: Generate Syllabus was clicked with a program name but with the
\* skills list cleared, in a session that holds a syllabus.
C15_Witness ==
  /\ last.op = "syllabus" /\ last.input[1].program_name # ""
  /\ last.shown = << MSG_NO_SKILL >> /\ last.calls = << >>
  /\ HasSyllabus /\ Len(Skills) = 0

\* C16: the initialisation block at the head of every run sets, in a fresh
\* session, the nine defaults (no skills, no syllabus, no history, "Purple
\* Gradient", "Normal", "Glassmorphism", "Medium", animations on, auto-save
\* on); in any later run it changes no key, whatever the user has set, it is
\* idempotent, and a run with no event leaves the store as it was.
C16_InitDefaults ==
  [][ /\ session_state = << >> => (session_state' = FreshStore /\ heap' = << << >> >>)
      /\ Rendered =>
            /\ ss0 = session_state /\ heap0 = heap
            /\ init_session_state(ss0, heap0) = ss0 /\ init_heap(ss0, heap0) = heap0
            /\ last'.op = "load" => (session_state' = session_state /\ heap' = heap) ]_vars

\* C16 witness: a run with no event in a session whose preferences were all
\* changed and that holds skills, a syllabus and a history.
C16_Witness ==
  /\ last.op = "load" /\ HasSyllabus /\ Len(History) = 1 /\ Len(Skills) = 1
  /\ session_state.theme # "Purple Gradient" /\ session_state.card_style # "Glassmorphism"
  /\ session_state.font_size # "Medium" /\ session_state.animation_speed # "Normal"
  /\ ~session_state.show_animations /\ ~session_state.auto_save

\* C17 as claimed: a click on a generation button whose request is answered
\* with a non-2xx status ends in the "Error calling Ollama" message with
\* nothing returned, leaves the store as it was, and the page rendered by
\* that run holds no download button, whatever the session held before.
C17_Non2xxShowsNoDownload ==
  [][ (last'.op \in GenerationOps /\ Called' /\ NonSuccessStatus(last'.calls[1].answer))
        => /\ last'.calls[1].returned = ""
           /\ \E d \in ErrorDetails : last'.shown = << MSG_ERROR \o d >>
           /\ session_state' = session_state /\ heap' = heap
           /\ last'.downloads = {} ]_vars

\* C18: two runs of the same task kind with the same parameters post the same
\* request, prompt and temperature alike, whatever the theme, the slider, the
\* stored syllabus, the history and the clock are at the time of each.
C18_SameParametersSameRequest ==
  SameParameters => last.calls[1].post.json = kept[1].json

\* C18 witness: a Generate Syllabus run with the parameters of an earlier one
\* that was made in a fresh session, now with another theme, another slider
\* position, a stored syllabus and a history of two.
C18_Witness ==
  /\ SameParameters /\ last.op = "syllabus"
  /\ kept[1].theme # session_state.theme
  /\ kept[1].ai_temp # ai_temp
  /\ kept[1].history = 0 /\ HasSyllabus /\ Len(History) = 2

\* C19: a Clear All Skills run leaves the skills list empty, whatever it held
\* (nothing included), and changes neither the stored syllabus (its fields and
\* the skills it shows), nor the history, nor any display preference.
C19_ClearSkills ==
  [][ (last'.op = "clear")
        => /\ Skills' = << >>
           /\ SyllabusFields' = SyllabusFields
           /\ HasSyllabus => StoredSkills' = StoredSkills
           /\ History' = History
           /\ Preferences' = Preferences ]_vars

\* C19 witness: the skills were cleared in a session whose stored syllabus
\* shows a skill, with a history and changed preferences.
C19_Witness ==
  /\ last.op = "clear" /\ Skills = << >>
  /\ HasSyllabus /\ Len(StoredSkills) = 1 /\ Len(History) = 1
  /\ session_state.theme # "Purple Gradient" /\ ~session_state.auto_save

\* C20: after a successful Generate Syllabus run the stored syllabus is made
\* of that run alone: program name, program type, number of semesters and
\* detail level of its form, the skills of its request, the text the backend
\* returned and the time of the run; it has no other field.
C20_StoredSyllabusIsLatest ==
  [][ (last'.op = "syllabus" /\ Called' /\ CallGaveText(last'.calls[1]))
        => /\ SyllabusFields' =
                [program_name |-> Form'.program_name,
                 program_type |-> Form'.program_type,
                 num_semesters |-> Form'.num_semesters,
                 detail_level |-> Form'.detail_level,
                 syllabus_content |-> last'.calls[1].returned,
                 generated_at |-> strftime_seconds(clock)]
           /\ StoredSkills' = Skills
           /\ DOMAIN session_state'.generated_syllabus =
                { "program_name", "program_type", "num_semesters", "skills",
                  "syllabus_content", "generated_at", "detail_level" } ]_vars

\* C20 witness: a syllabus for "CS" with the text B replaced one for the
\* bootcamp that was generated over other skills.
C20_Witness ==
  /\ last.op = "syllabus" /\ Called /\ CallGaveText(last.calls[1])
  /\ Form.program_name = "CS" /\ last.calls[1].returned = "SYLLABUS B"
  /\ Len(History) = 2 /\ History[1].name = "Data Science Bootcamp"
  /\ Len(StoredSkills) = 2

\* C21: whatever GET /api/tags answers (model found, model missing, a status
\* other than 200, an unreadable body, no connection, a timeout), a change of
\* that answer and a run that does no more than check the status leave the
\* store as it was, a click on a
\* generation button with its inputs present posts its request, and a
\* syllabus that comes back is stored.
C21_StatusCheckHasNoEffect ==
  [][ /\ ollama' # ollama => (session_state' = session_state /\ heap' = heap)
      /\ ollama' = ollama =>
            /\ (Rendered /\ last'.op = "load") => (session_state' = session_state /\ heap' = heap)
            /\ (last'.op \in GenerationOps /\ ~MissingInput(last'.op, last'.input, Skills)) => Called'
            /\ (last'.op = "syllabus" /\ Called' /\ CallGaveText(last'.calls[1]))
                  => (HasSyllabus' /\ Len(History') = Len(History) + 1) ]_vars

\* C21 witness: a syllabus was generated and stored in a run whose status
\* check found the backend offline.
C21_Witness ==
  /\ last.op = "syllabus" /\ Called /\ CallGaveText(last.calls[1])
  /\ last.status = << "Ollama Offline" >>
  /\ HasSyllabus /\ Len(History) = 1

\* C22: in every state of a session the stored syllabus is missing exactly
\* when the history is empty, and when a syllabus is stored the last record
\* of the history carries its program name.
C22_SyllabusAndHistoryAgree ==
  Rendered =>
    /\ (session_state.generated_syllabus = None) <=> (History = << >>)
    /\ HasSyllabus => History[Len(History)].name = session_state.generated_syllabus.program_name

\* C22 witness: after syllabi for two programs, and a failed attempt for the
\* first one, the stored syllabus and the last record are those of the second.
C22_Witness ==
  /\ HasSyllabus /\ Len(History) = 2
  /\ History[1].name = "Data Science Bootcamp" /\ History[2].name = "CS"
  /\ session_state.generated_syllabus.program_name = "CS"
  /\ last.op = "syllabus" /\ Called /\ CallFailed(last.calls[1])
  /\ Form.program_name = "Data Science Bootcamp"

\* C23: a Reset All Settings run puts theme, animation speed, card style,
\* font size and the animations switch back to their defaults and leaves
\* auto-save, the skills list, the stored syllabus and the history as they were.
C23_ResetAllSettings ==
  [][ (last'.op = "reset")
        => /\ session_state'.theme = "Purple Gradient"
           /\ session_state'.animation_speed = "Normal"
           /\ session_state'.card_style = "Glassmorphism"
           /\ session_state'.font_size = "Medium"
           /\ session_state'.show_animations = TRUE
           /\ session_state'.auto_save = session_state.auto_save
           /\ session_state'.skills_list = session_state.skills_list
           /\ session_state'.generated_syllabus = session_state.generated_syllabus
           /\ History' = History
           /\ heap' = heap ]_vars

\* C23 witness: after a reset the preferences are the defaults while
\* auto-save is still off and skills, syllabus and history are in place.
C23_Witness ==
  /\ last.op = "reset" /\ ~session_state.auto_save
  /\ session_state.theme = "Purple Gradient" /\ session_state.font_size = "Medium"
  /\ HasSyllabus /\ Len(History) = 2 /\ Len(Skills) = 1

\* what a session holds besides its preferences: the skills, the stored
\* syllabus with the skills it refers to (and whether that list is the
\* session's own skills list), and the history
Content(ss, h) ==
  [skills |-> h[ss.skills_list],
   syllabus |-> IF ss.generated_syllabus = None THEN None
                ELSE [ss.generated_syllabus EXCEPT !.skills = h[@]],
   shared |-> IF ss.generated_syllabus = None THEN FALSE
              ELSE ss.generated_syllabus.skills = ss.skills_list,
   history |-> ss.syllabus_history]

Contents == Content(session_state, heap)

\* the store of a second session that differs from this one in auto_save only
Flipped == [ss0 EXCEPT !.auto_save = ~@]

\* the runs that write skills, syllabus or history
ContentOps == { "syllabus", "add", "quick_add", "remove", "clear" }

\* C24: auto-save influences no transition. Only its own toggle writes it, and
\* that toggle writes nothing else; in every other run the same event with the
\* same backend answer, handled in a session whose auto_save is the opposite,
\* makes the same calls, shows the same messages and leaves the same skills,
\* syllabus and history. A successful generation is stored with auto-save off.
C24_AutoSaveDoesNotInterfere ==
  [][ Rendered =>
        /\ (last'.op # "auto_save") => session_state'.auto_save = session_state.auto_save
        /\ (last'.op \notin ContentOps) => Contents' = Contents
        /\ (last'.op = "syllabus") =>
              \E resp \in Answers :
                LET twin == generate_click(Flipped, heap0, last'.input[1], resp, clock)
                IN  /\ twin.calls = last'.calls
                    /\ twin.shown = last'.shown
                    /\ Content(twin.ss, heap0) = Contents'
        /\ (last'.op \in { "add", "quick_add" }) =>
              Contents' = Content(Flipped, IF last'.skill = "" THEN heap0
                                           ELSE add_skill(Flipped, heap0, last'.skill))
        /\ (last'.op = "remove") =>
              Contents' = Content(Flipped, [heap0 EXCEPT ![Flipped.skills_list] =
                                                           list_remove(@, last'.skill)])
        /\ (last'.op = "clear") =>
              Contents' = [Contents EXCEPT !.skills = << >>, !.shared = FALSE]
        /\ (last'.op = "syllabus" /\ Called' /\ CallGaveText(last'.calls[1])
               /\ ~session_state.auto_save)
              => /\ HasSyllabus'
                 /\ SyllabusFields'.syllabus_content = last'.calls[1].returned
                 /\ Len(History') = Len(History) + 1 ]_vars

\* C24 witness: with auto-save switched off a generation succeeded and its
\* syllabus and history record are stored.
C24_Witness ==
  /\ last.op = "syllabus" /\ Called /\ CallGaveText(last.calls[1])
  /\ ~session_state.auto_save
  /\ HasSyllabus /\ SyllabusFields.syllabus_content = last.calls[1].returned
  /\ Len(History) = 1 /\ History[1].name = Form.program_name

====
